---- MODULE Spec2Model ----
(***************************************************************************)
(* The HTTP/2 SETTINGS frame codec of src/frame/settings.rs: the setting   *)
(* identifiers, the SettingsOrder builder and Settings::load.              *)
(*                                                                         *)
(* A u16 is an integer in 0..65535.  A u32 is kept as the pair             *)
(* <<high 16 bits, low 16 bits>>, so that every 32-bit value is            *)
(* representable and comparisons are made on the full width.               *)
(***************************************************************************)
EXTENDS Integers, Sequences, FiniteSets, TLC

VARIABLES
    ids,        \* SettingsOrderBuilder.ids
    mask,       \* SettingsOrderBuilder.mask (u16)
    order,      \* the SettingsOrder returned by build(), <<>> before
    phase,      \* position of the caller: "building", "built", "input", "loaded"
    pushed,     \* history: every identifier handed to push/extend, in call order
    calls,      \* history: number of push/extend calls made
    head,       \* the frame head given to Settings::load
    payload,    \* the payload bytes given to Settings::load
    records,    \* history: the <<code, value>> records the payload was made of
    tail,       \* history: the bytes of the payload after its last whole record
    result,     \* what Settings::load returned
    expSettings,    \* ExperimentalSettingsBuilder.settings
    expMask,        \* ExperimentalSettingsBuilder.mask (u16)
    experimental,   \* the ExperimentalSettings returned by build(), <<>> before
    expPushed,      \* history: the from_id calls whose results were pushed
    settings,       \* the Settings value under construction
    origin,         \* history: the constructor the Settings value came from
    wire            \* what Settings::encode wrote: frame head and payload

vars ==
    <<ids, mask, order, phase, pushed, calls, head, payload, records, tail,
      result, expSettings, expMask, experimental, expPushed, settings, origin,
      wire>>

orderVars == <<ids, mask, order, pushed, calls>>
loadVars == <<head, payload, records, tail, result>>
expVars == <<expSettings, expMask, experimental, expPushed>>
encVars == <<settings, origin, wire>>

(***************************************************************************)
(* Bounds of the model.                                                    *)
(***************************************************************************)
MaxCalls == 3       \* push/extend calls made on one builder
MaxRecords == 2     \* 6-byte records in a payload

(***************************************************************************)
(* SettingId                                                               *)
(***************************************************************************)
Std(tag) == [tag |-> tag, raw |-> 0]
Unknown(code) == [tag |-> "Unknown", raw |-> code]

HeaderTableSize == Std("HeaderTableSize")
EnablePush == Std("EnablePush")
MaxConcurrentStreams == Std("MaxConcurrentStreams")
InitialWindowSize == Std("InitialWindowSize")
MaxFrameSize == Std("MaxFrameSize")
MaxHeaderListSize == Std("MaxHeaderListSize")
EnableConnectProtocol == Std("EnableConnectProtocol")
NoRfc7540Priorities == Std("NoRfc7540Priorities")

\* The variants in declaration order.
DEFAULT_IDS ==
    << HeaderTableSize, EnablePush, MaxConcurrentStreams, InitialWindowSize,
       MaxFrameSize, MaxHeaderListSize, EnableConnectProtocol,
       NoRfc7540Priorities >>

MAX_ID == 15

IsUnknown(id) == id.tag = "Unknown"

\* u16::from(SettingId)
U16FromId(id) ==
    CASE id.tag = "HeaderTableSize" -> 1
      [] id.tag = "EnablePush" -> 2
      [] id.tag = "MaxConcurrentStreams" -> 3
      [] id.tag = "InitialWindowSize" -> 4
      [] id.tag = "MaxFrameSize" -> 5
      [] id.tag = "MaxHeaderListSize" -> 6
      [] id.tag = "EnableConnectProtocol" -> 8
      [] id.tag = "NoRfc7540Priorities" -> 9
      [] OTHER -> id.raw

\* SettingId::from(u16)
IdFromU16(code) ==
    CASE code = 1 -> HeaderTableSize
      [] code = 2 -> EnablePush
      [] code = 3 -> MaxConcurrentStreams
      [] code = 4 -> InitialWindowSize
      [] code = 5 -> MaxFrameSize
      [] code = 6 -> MaxHeaderListSize
      [] code = 8 -> EnableConnectProtocol
      [] code = 9 -> NoRfc7540Priorities
      [] OTHER -> Unknown(code)

\* SettingId::mask_id: one bit of a u16 per wire code 1..MAX_ID, 0 otherwise.
mask_id(id) ==
    LET value == U16FromId(id)
    IN  IF value = 0 \/ value > MAX_ID THEN 0 ELSE 2 ^ (value - 1)

\* a & b and a | b on u16, for b zero or a single bit
BitAnd(a, b) == IF b = 0 THEN 0 ELSE IF (a \div b) % 2 = 1 THEN b ELSE 0
BitOr(a, b) == IF BitAnd(a, b) = b THEN a ELSE (a + b) % 65536

(***************************************************************************)
(* SettingsOrderBuilder                                                    *)
(***************************************************************************)
\* A builder is the record [ids, mask].
NewBuilder == [ids |-> <<>>, mask |-> 0]

\* push without the test of the mask accumulator
pushKeepsDuplicates(b, id) ==
    LET m == mask_id(id)
    IN  IF m # 0
        THEN [ids |-> Append(b.ids, id), mask |-> BitOr(b.mask, m)]
        ELSE b

\* push that inserts at the front instead of appending
pushFront(b, id) ==
    LET m == mask_id(id)
    IN  IF m # 0
        THEN IF BitAnd(b.mask, m) = 0
             THEN [ids |-> <<id>> \o b.ids, mask |-> BitOr(b.mask, m)]
             ELSE b
        ELSE b

\* push without the test for a zero mask bit
pushNoZeroMaskGuard(b, id) ==
    LET m == mask_id(id)
    IN  IF BitAnd(b.mask, m) = 0
        THEN [ids |-> Append(b.ids, id), mask |-> BitOr(b.mask, m)]
        ELSE b

push(b, id) ==
    LET m == mask_id(id)
    IN  IF m # 0
        THEN IF BitAnd(b.mask, m) = 0
             THEN [ids |-> Append(b.ids, id), mask |-> BitOr(b.mask, m)]
             ELSE b
        ELSE b

RECURSIVE extend(_, _)
extend(b, iter) ==
    IF iter = <<>> THEN b
    ELSE extend(push(b, Head(iter)), Tail(iter))

\* build without the completing extend
buildNoCompletion(b) == b.ids

build(b) == extend(b, DEFAULT_IDS).ids

(***************************************************************************)
(* The identifiers and lists the callers of the builder hand to it.        *)
(***************************************************************************)
StdIds == { DEFAULT_IDS[i] : i \in 1..Len(DEFAULT_IDS) }

UnknownCodes == {0, 1, 7, 15, 16}

PushIds == StdIds \cup { Unknown(c) : c \in UnknownCodes }

ExtendLists ==
    { <<>>,
      << HeaderTableSize, EnablePush, MaxConcurrentStreams, InitialWindowSize,
         MaxFrameSize, MaxHeaderListSize, NoRfc7540Priorities,
         EnableConnectProtocol >>,
      << MaxFrameSize, Unknown(7), MaxFrameSize, Unknown(0), EnablePush >> }

(***************************************************************************)
(* Setting, SettingsFlags, Settings                                        *)
(***************************************************************************)
None == <<>>
Some(v) == <<v>>

\* u32 comparison on <<high half, low half>>
U32Le(a, b) == a[1] < b[1] \/ (a[1] = b[1] /\ a[2] <= b[2])

ACK == 1
ALL == ACK

DEFAULT_MAX_FRAME_SIZE == <<0, 16384>>          \* 16_384
MAX_INITIAL_WINDOW_SIZE == <<32767, 65535>>     \* (1 << 31) - 1
MAX_MAX_FRAME_SIZE == <<255, 65535>>            \* (1 << 24) - 1

\* SettingsFlags::load, SettingsFlags::ack, SettingsFlags::is_ack
SettingsFlagsLoad(bits) == BitAnd(bits, ALL)
SettingsFlagsAck == ACK
is_ack(flags) == BitAnd(flags, ACK) = ACK

\* Settings::default()
SettingsDefault ==
    [ flags |-> 0,
      header_table_size |-> None,
      enable_push |-> None,
      max_concurrent_streams |-> None,
      initial_window_size |-> None,
      max_frame_size |-> None,
      max_header_list_size |-> None,
      enable_connect_protocol |-> None,
      no_rfc7540_priorities |-> None,
      experimental_settings |-> None,
      settings_order |-> DEFAULT_IDS ]

\* ack() that leaves the flags of default()
SettingsAckWithoutFlag == SettingsDefault

\* Settings::ack()
SettingsAck == [SettingsDefault EXCEPT !.flags = SettingsFlagsAck]

\* from_id with the upper bound tested by >= in place of >
from_idExcludesMaxId(id, value) ==
    IF IsUnknown(id) /\ (id.raw = 0 \/ id.raw >= MAX_ID)
    THEN None
    ELSE Some([id |-> id, value |-> value])

\* Setting::from_id
from_id(id, value) ==
    IF IsUnknown(id) /\ (id.raw = 0 \/ id.raw > MAX_ID)
    THEN None
    ELSE Some([id |-> id, value |-> value])

\* Setting::load reading the code low byte first
SettingLoadLittleEndianCode(raw) ==
    LET id == (raw[2] * 256 + raw[1]) % 65536
        val == <<raw[3] * 256 + raw[4], raw[5] * 256 + raw[6]>>
    IN  from_id(IdFromU16(id), val)

\* Setting::load: big-endian u16 code, big-endian u32 value
SettingLoad(raw) ==
    LET id == (raw[1] * 256 + raw[2]) % 65536
        val == <<raw[3] * 256 + raw[4], raw[5] * 256 + raw[6]>>
    IN  from_id(IdFromU16(id), val)

Err(e) == [tag |-> "Err", err |-> e]
Ok(s) == [tag |-> "Ok", settings |-> s]

\* the 0 | 1 patterns, looking at the low half of the value only
BoolValueLowHalf(v) == v[2] \in {0, 1}

\* the 0 | 1 patterns of the boolean-like settings
BoolValue(v) == v = <<0, 0>> \/ v = <<0, 1>>

\* the window bound with >= in place of >
WindowValueExclusive(v) == ~U32Le(MAX_INITIAL_WINDOW_SIZE, v)

\* !(setting.value as usize > MAX_INITIAL_WINDOW_SIZE)
WindowValue(v) == U32Le(v, MAX_INITIAL_WINDOW_SIZE)

\* DEFAULT_MAX_FRAME_SIZE <= value && value <= MAX_MAX_FRAME_SIZE
FrameSizeValue(v) ==
    U32Le(DEFAULT_MAX_FRAME_SIZE, v) /\ U32Le(v, MAX_MAX_FRAME_SIZE)

\* the match that assigns a field only while it is absent
ApplySettingKeepFirst(s, setting) ==
    LET v == setting.value
        tag == setting.id.tag
        Keep(old) == IF old = None THEN Some(v) ELSE old
    IN  CASE tag = "HeaderTableSize" ->
               Ok([s EXCEPT !.header_table_size = Keep(@)])
          [] tag = "EnablePush" ->
               IF BoolValue(v)
               THEN Ok([s EXCEPT !.enable_push = Keep(@)])
               ELSE Err("InvalidSettingValue")
          [] tag = "MaxConcurrentStreams" ->
               Ok([s EXCEPT !.max_concurrent_streams = Keep(@)])
          [] tag = "InitialWindowSize" ->
               IF ~WindowValue(v)
               THEN Err("InvalidSettingValue")
               ELSE Ok([s EXCEPT !.initial_window_size = Keep(@)])
          [] tag = "MaxFrameSize" ->
               IF FrameSizeValue(v)
               THEN Ok([s EXCEPT !.max_frame_size = Keep(@)])
               ELSE Err("InvalidSettingValue")
          [] tag = "MaxHeaderListSize" ->
               Ok([s EXCEPT !.max_header_list_size = Keep(@)])
          [] tag = "EnableConnectProtocol" ->
               IF BoolValue(v)
               THEN Ok([s EXCEPT !.enable_connect_protocol = Keep(@)])
               ELSE Err("InvalidSettingValue")
          [] tag = "NoRfc7540Priorities" ->
               IF BoolValue(v)
               THEN Ok([s EXCEPT !.no_rfc7540_priorities = Keep(@)])
               ELSE Err("InvalidSettingValue")
          [] OTHER -> Ok(s)

\* the match on setting.id in the loop of Settings::load
ApplySetting(s, setting) ==
    LET v == setting.value
        tag == setting.id.tag
    IN  CASE tag = "HeaderTableSize" ->
               Ok([s EXCEPT !.header_table_size = Some(v)])
          [] tag = "EnablePush" ->
               IF BoolValue(v)
               THEN Ok([s EXCEPT !.enable_push = Some(v)])
               ELSE Err("InvalidSettingValue")
          [] tag = "MaxConcurrentStreams" ->
               Ok([s EXCEPT !.max_concurrent_streams = Some(v)])
          [] tag = "InitialWindowSize" ->
               IF ~WindowValue(v)
               THEN Err("InvalidSettingValue")
               ELSE Ok([s EXCEPT !.initial_window_size = Some(v)])
          [] tag = "MaxFrameSize" ->
               IF FrameSizeValue(v)
               THEN Ok([s EXCEPT !.max_frame_size = Some(v)])
               ELSE Err("InvalidSettingValue")
          [] tag = "MaxHeaderListSize" ->
               Ok([s EXCEPT !.max_header_list_size = Some(v)])
          [] tag = "EnableConnectProtocol" ->
               IF BoolValue(v)
               THEN Ok([s EXCEPT !.enable_connect_protocol = Some(v)])
               ELSE Err("InvalidSettingValue")
          [] tag = "NoRfc7540Priorities" ->
               IF BoolValue(v)
               THEN Ok([s EXCEPT !.no_rfc7540_priorities = Some(v)])
               ELSE Err("InvalidSettingValue")
          [] OTHER -> Ok(s)

\* payload.chunks(6): the first chunk and what follows it
FirstChunk(p) == SubSeq(p, 1, IF Len(p) < 6 THEN Len(p) ELSE 6)
AfterFirstChunk(p) == SubSeq(p, 7, Len(p))

\* the loop that leaves out a record with an invalid value and goes on
RECURSIVE LoadChunksSkipInvalid(_, _)
LoadChunksSkipInvalid(s, p) ==
    IF p = <<>> THEN Ok(s)
    ELSE LET setting == SettingLoad(FirstChunk(p))
         IN  IF setting = None
             THEN LoadChunksSkipInvalid(s, AfterFirstChunk(p))
             ELSE LET r == ApplySetting(s, setting[1])
                  IN  LoadChunksSkipInvalid(
                          IF r.tag = "Err" THEN s ELSE r.settings,
                          AfterFirstChunk(p))

\* for raw in payload.chunks(6) { ... } Ok(settings)
RECURSIVE LoadChunks(_, _)
LoadChunks(s, p) ==
    IF p = <<>> THEN Ok(s)
    ELSE LET setting == SettingLoad(FirstChunk(p))
         IN  IF setting = None
             THEN LoadChunks(s, AfterFirstChunk(p))
             ELSE LET r == ApplySetting(s, setting[1])
                  IN  IF r.tag = "Err" THEN r
                      ELSE LoadChunks(r.settings, AfterFirstChunk(p))

\* the ACK branch without the test of the payload
LoadAckAnyPayload(p) == Ok(SettingsAck)

\* the ACK branch of Settings::load
LoadAck(p) ==
    IF p # <<>> THEN Err("InvalidPayloadLength") ELSE Ok(SettingsAck)

\* the non-ACK branch without the test of the length, whole records only
LoadSettingsNoLengthCheck(p) ==
    LoadChunks(SettingsDefault, SubSeq(p, 1, Len(p) - (Len(p) % 6)))

\* the non-ACK branch of Settings::load
LoadSettings(p) ==
    IF Len(p) % 6 # 0
    THEN Err("InvalidPayloadAckSettings")
    ELSE LoadChunks(SettingsDefault, p)

\* load with the stream identifier tested after the ACK branch
LoadStreamCheckLate(h, p) ==
    IF is_ack(SettingsFlagsLoad(h.flag))
    THEN LoadAck(p)
    ELSE IF h.stream_id # 0
         THEN Err("InvalidStreamId")
         ELSE LoadSettings(p)

\* Settings::load
Load(h, p) ==
    IF h.stream_id # 0
    THEN Err("InvalidStreamId")
    ELSE IF is_ack(SettingsFlagsLoad(h.flag))
         THEN LoadAck(p)
         ELSE LoadSettings(p)

(***************************************************************************)
(* The values of the variables an area of the model does not use.          *)
(***************************************************************************)
NoWire == [head |-> [stream_id |-> 0, flag |-> 0, len |-> 0], payload |-> <<>>]

OrderIdle ==
    /\ ids = NewBuilder.ids
    /\ mask = NewBuilder.mask
    /\ order = <<>>
    /\ pushed = <<>>

LoadIdle ==
    /\ head = [stream_id |-> 0, flag |-> 0]
    /\ payload = <<>>
    /\ records = <<>>
    /\ tail = <<>>
    /\ result = [tag |-> "None"]

ExpIdle ==
    /\ expSettings = <<>>
    /\ expMask = 0
    /\ experimental = <<>>
    /\ expPushed = <<>>

EncIdle ==
    /\ settings = SettingsDefault
    /\ origin = "none"
    /\ wire = NoWire

(***************************************************************************)
(* The caller of the SettingsOrder builder.                                *)
(***************************************************************************)
InitOrder ==
    /\ ids = NewBuilder.ids
    /\ mask = NewBuilder.mask
    /\ order = <<>>
    /\ phase = "building"
    /\ pushed = <<>>
    /\ calls = 0
    /\ LoadIdle
    /\ ExpIdle
    /\ EncIdle

Push(id) ==
    /\ phase = "building"
    /\ calls < MaxCalls
    /\ LET b == push([ids |-> ids, mask |-> mask], id)
       IN  /\ ids' = b.ids
           /\ mask' = b.mask
    /\ pushed' = Append(pushed, id)
    /\ calls' = calls + 1
    /\ UNCHANGED <<order, phase, loadVars, expVars, encVars>>

Extend(iter) ==
    /\ phase = "building"
    /\ calls < MaxCalls
    /\ LET b == extend([ids |-> ids, mask |-> mask], iter)
       IN  /\ ids' = b.ids
           /\ mask' = b.mask
    /\ pushed' = pushed \o iter
    /\ calls' = calls + 1
    /\ UNCHANGED <<order, phase, loadVars, expVars, encVars>>

Build ==
    /\ phase = "building"
    /\ order' = build([ids |-> ids, mask |-> mask])
    /\ phase' = "built"
    /\ UNCHANGED <<ids, mask, pushed, calls, loadVars, expVars, encVars>>

NextOrder ==
    \/ \E id \in PushIds : Push(id)
    \/ \E iter \in ExtendLists : Extend(iter)
    \/ Build

SpecOrder == InitOrder /\ [][NextOrder]_vars

(***************************************************************************)
(* The frames handed to Settings::load: a head and a payload made of       *)
(* 6-byte records, possibly followed by a truncated record.                *)
(***************************************************************************)
StreamIds == {0, 1}
FlagBytes == {0, 1, 4, 5}

\* <<wire code, value>>
WireRecords ==
    { <<1, <<0, 0>>>>, <<1, <<65535, 65535>>>>,
      <<2, <<0, 0>>>>, <<2, <<0, 1>>>>, <<2, <<0, 2>>>>, <<2, <<1, 1>>>>,
      <<3, <<0, 100>>>>,
      <<4, <<32767, 65535>>>>, <<4, <<32768, 0>>>>,
      <<5, <<0, 16383>>>>, <<5, <<0, 16384>>>>,
      <<5, <<255, 65535>>>>, <<5, <<256, 0>>>>,
      <<6, <<65535, 65535>>>>,
      <<8, <<0, 1>>>>, <<8, <<0, 2>>>>,
      <<9, <<0, 0>>>>, <<9, <<65535, 65535>>>>,
      <<0, <<0, 1>>>>, <<7, <<0, 5>>>>, <<16, <<0, 1>>>>, <<512, <<0, 2>>>> }

Tails == { <<>>, <<0>>, <<0, 2, 0, 0, 0>> }

\* the six bytes of a record on the wire
RecordBytes(rec) ==
    << rec[1] \div 256, rec[1] % 256,
       rec[2][1] \div 256, rec[2][1] % 256,
       rec[2][2] \div 256, rec[2][2] % 256 >>

RECURSIVE PayloadBytes(_)
PayloadBytes(recs) ==
    IF recs = <<>> THEN <<>>
    ELSE RecordBytes(Head(recs)) \o PayloadBytes(Tail(recs))

RecordLists == UNION { [1..n -> WireRecords] : n \in 0..MaxRecords }

InitLoad ==
    /\ OrderIdle
    /\ ExpIdle
    /\ EncIdle
    /\ calls = 0
    /\ phase = "input"
    /\ head \in [stream_id : StreamIds, flag : FlagBytes]
    /\ records \in RecordLists
    /\ tail \in Tails
    /\ payload = PayloadBytes(records) \o tail
    /\ result = [tag |-> "None"]

LoadFrame ==
    /\ phase = "input"
    /\ result' = Load(head, payload)
    /\ phase' = "loaded"
    /\ UNCHANGED <<orderVars, head, payload, records, tail, expVars, encVars>>

NextLoad == LoadFrame

SpecLoad == InitLoad /\ [][NextLoad]_vars

(***************************************************************************)
(* ExperimentalSettingsBuilder (feature "unstable")                        *)
(***************************************************************************)
MaxExpCalls == 3    \* push/extend calls made on one experimental builder

\* An experimental builder is the record [settings, mask].
NewExpBuilder == [settings |-> <<>>, mask |-> 0]

\* push without the test that the code is not a standard one
ExpPushKeepsStandardCode(b, item) ==
    IF item = None THEN b
    ELSE LET setting == item[1]
             m == mask_id(setting.id)
         IN  IF IsUnknown(setting.id) /\ m # 0 /\ BitAnd(b.mask, m) = 0
             THEN [settings |-> Append(b.settings, setting),
                   mask |-> BitOr(b.mask, m)]
             ELSE b

\* ExperimentalSettingsBuilder::push; item is an Option<Setting>
ExpPush(b, item) ==
    IF item = None THEN b
    ELSE LET setting == item[1]
         IN  IF IsUnknown(setting.id)
             THEN IF IsUnknown(IdFromU16(setting.id.raw))
                  THEN LET m == mask_id(setting.id)
                       IN  IF m # 0
                           THEN IF BitAnd(b.mask, m) = 0
                                THEN [settings |-> Append(b.settings, setting),
                                      mask |-> BitOr(b.mask, m)]
                                ELSE b
                           ELSE b
                  ELSE b
             ELSE b

\* ExperimentalSettingsBuilder::extend
RECURSIVE ExpExtend(_, _)
ExpExtend(b, items) ==
    IF items = <<>> THEN b
    ELSE ExpExtend(ExpPush(b, Head(items)), Tail(items))

\* ExperimentalSettingsBuilder::build
ExpBuild(b) == b.settings

\* The arguments of the Setting::from_id calls whose results callers push.
FromIdIds ==
    { HeaderTableSize, NoRfc7540Priorities,
      Unknown(0), Unknown(1), Unknown(7), Unknown(14), Unknown(15),
      Unknown(16) }

FromIdValues == { <<0, 42>>, <<0, 84>> }

FromIdLists ==
    { << <<Unknown(16), <<0, 42>>>>, <<Unknown(16), <<0, 84>>>> >>,
      << <<Unknown(15), <<0, 42>>>>, <<Unknown(14), <<0, 84>>>>,
         <<Unknown(14), <<0, 84>>>> >>,
      << <<HeaderTableSize, <<0, 42>>>>, <<Unknown(15), <<0, 84>>>> >> }

\* one Setting::from_id call: its arguments and what it returned
FromIdCall(id, value) ==
    [id |-> id, value |-> value, item |-> from_id(id, value)]

RECURSIVE FromIdCalls(_)
FromIdCalls(args) ==
    IF args = <<>> THEN <<>>
    ELSE <<FromIdCall(Head(args)[1], Head(args)[2])>> \o FromIdCalls(Tail(args))

RECURSIVE Items(_)
Items(fcalls) ==
    IF fcalls = <<>> THEN <<>>
    ELSE <<Head(fcalls).item>> \o Items(Tail(fcalls))

InitExp ==
    /\ OrderIdle
    /\ LoadIdle
    /\ EncIdle
    /\ expSettings = NewExpBuilder.settings
    /\ expMask = NewExpBuilder.mask
    /\ experimental = <<>>
    /\ expPushed = <<>>
    /\ calls = 0
    /\ phase = "exp_building"

\* .push(Setting::from_id(id, value))
ExpPushFromId(id, value) ==
    /\ phase = "exp_building"
    /\ calls < MaxExpCalls
    /\ LET c == FromIdCall(id, value)
           b == ExpPush([settings |-> expSettings, mask |-> expMask], c.item)
       IN  /\ expSettings' = b.settings
           /\ expMask' = b.mask
           /\ expPushed' = Append(expPushed, c)
    /\ calls' = calls + 1
    /\ UNCHANGED <<ids, mask, order, pushed, phase, experimental, loadVars,
                   encVars>>

\* .extend(vec![Setting::from_id(..), ..])
ExpExtendFromIds(args) ==
    /\ phase = "exp_building"
    /\ calls < MaxExpCalls
    /\ LET cs == FromIdCalls(args)
           b == ExpExtend([settings |-> expSettings, mask |-> expMask],
                          Items(cs))
       IN  /\ expSettings' = b.settings
           /\ expMask' = b.mask
           /\ expPushed' = expPushed \o cs
    /\ calls' = calls + 1
    /\ UNCHANGED <<ids, mask, order, pushed, phase, experimental, loadVars,
                   encVars>>

ExpBuildCall ==
    /\ phase = "exp_building"
    /\ experimental' = ExpBuild([settings |-> expSettings, mask |-> expMask])
    /\ phase' = "exp_built"
    /\ UNCHANGED <<orderVars, expSettings, expMask, expPushed, loadVars,
                   encVars>>

NextExp ==
    \/ \E id \in FromIdIds, value \in FromIdValues : ExpPushFromId(id, value)
    \/ \E args \in FromIdLists : ExpExtendFromIds(args)
    \/ ExpBuildCall

SpecExp == InitExp /\ [][NextExp]_vars

(***************************************************************************)
(* Settings: the setters, for_each, payload_len and encode                 *)
(***************************************************************************)
MaxSetterCalls == 3     \* setter calls made on one Settings value

\* enable as u32
BoolAsU32(enable) == IF enable THEN <<0, 1>> ELSE <<0, 0>>

set_initial_window_size(s, size) == [s EXCEPT !.initial_window_size = size]
set_max_concurrent_streams(s, max) == [s EXCEPT !.max_concurrent_streams = max]
set_max_header_list_size(s, size) == [s EXCEPT !.max_header_list_size = size]
set_enable_push(s, enable) == [s EXCEPT !.enable_push = Some(BoolAsU32(enable))]
set_enable_connect_protocol(s, val) ==
    [s EXCEPT !.enable_connect_protocol = val]
set_header_table_size(s, size) == [s EXCEPT !.header_table_size = size]
set_no_rfc7540_priorities(s, enable) ==
    [s EXCEPT !.no_rfc7540_priorities = Some(BoolAsU32(enable))]
set_experimental_settings(s, exp) ==
    [s EXCEPT !.experimental_settings = Some(exp)]
set_settings_order(s, o) == [s EXCEPT !.settings_order = o]

\* the assertion without its upper bound
FrameSizeAssertionNoUpperBound(size) ==
    size # None => U32Le(DEFAULT_MAX_FRAME_SIZE, size[1])

\* the assertion of set_max_frame_size
FrameSizeAssertion(size) ==
    size # None =>
        (U32Le(DEFAULT_MAX_FRAME_SIZE, size[1]) /\ U32Le(size[1], MAX_MAX_FRAME_SIZE))

\* set_max_frame_size once the assertion has passed
set_max_frame_size(s, size) == [s EXCEPT !.max_frame_size = size]

\* the field for_each reads for a standard identifier
FieldOfId(s, id) ==
    CASE id.tag = "HeaderTableSize" -> s.header_table_size
      [] id.tag = "EnablePush" -> s.enable_push
      [] id.tag = "MaxConcurrentStreams" -> s.max_concurrent_streams
      [] id.tag = "InitialWindowSize" -> s.initial_window_size
      [] id.tag = "MaxFrameSize" -> s.max_frame_size
      [] id.tag = "MaxHeaderListSize" -> s.max_header_list_size
      [] id.tag = "EnableConnectProtocol" -> s.enable_connect_protocol
      [] id.tag = "NoRfc7540Priorities" -> s.no_rfc7540_priorities

\* unknown_settings.into_iter().find(|setting| setting.id == id)
RECURSIVE Find(_, _)
Find(exp, id) ==
    IF exp = <<>> THEN None
    ELSE IF Head(exp).id = id THEN Some(Head(exp))
    ELSE Find(Tail(exp), id)

\* one arm of the match of for_each: the settings handed to f for id
ForEachArm(s, id) ==
    IF IsUnknown(id)
    THEN IF s.experimental_settings # None
         THEN Find(s.experimental_settings[1], id)
         ELSE <<>>
    ELSE IF FieldOfId(s, id) # None
         THEN from_id(id, FieldOfId(s, id)[1])
         ELSE <<>>

\* the loop that hands every attached experimental setting to f at each
\* Unknown identifier of the order
RECURSIVE ForEachAllExperimental(_, _)
ForEachAllExperimental(s, o) ==
    IF o = <<>> THEN <<>>
    ELSE (IF IsUnknown(Head(o)) /\ s.experimental_settings # None
          THEN s.experimental_settings[1]
          ELSE ForEachArm(s, Head(o)))
         \o ForEachAllExperimental(s, Tail(o))

\* for id in &self.settings_order { .. }: the settings handed to f, in order
RECURSIVE ForEachFrom(_, _)
ForEachFrom(s, o) ==
    IF o = <<>> THEN <<>>
    ELSE ForEachArm(s, Head(o)) \o ForEachFrom(s, Tail(o))

for_each(s) == ForEachFrom(s, s.settings_order)

\* Settings::payload_len: 6 for every setting for_each hands over
RECURSIVE AddSix(_)
AddSix(emitted) == IF emitted = <<>> THEN 0 ELSE 6 + AddSix(Tail(emitted))

payload_len(s) == AddSix(for_each(s))

\* encode that writes the low 16 bits of the value only
SettingEncodeLowHalf(setting) ==
    RecordBytes(<<U16FromId(setting.id), <<0, setting.value[2]>>>>)

\* Setting::encode: the code, then the value, big-endian
SettingEncode(setting) == RecordBytes(<<U16FromId(setting.id), setting.value>>)

RECURSIVE EncodeAll(_)
EncodeAll(emitted) ==
    IF emitted = <<>> THEN <<>>
    ELSE SettingEncode(Head(emitted)) \o EncodeAll(Tail(emitted))

\* Settings::encode: the frame head and the bytes written after it
encode(s) ==
    [ head |-> [stream_id |-> 0, flag |-> s.flags, len |-> payload_len(s)],
      payload |-> EncodeAll(for_each(s)) ]

(***************************************************************************)
(* The callers of Settings: a value from default(), ack() or load, then    *)
(* setters, then encode, then the peer's load of what was written.         *)
(***************************************************************************)
WindowArgs == { None, Some(<<0, 65535>>), Some(<<32768, 0>>) }
StreamsArgs == { Some(<<0, 100>>) }
FrameSizeArgs ==
    { None, Some(<<0, 16384>>), Some(<<0, 16383>>), Some(<<255, 65535>>),
      Some(<<256, 0>>) }
HeaderListArgs == { Some(<<65535, 65535>>) }
ConnectArgs == { Some(<<0, 1>>), Some(<<0, 2>>) }
TableSizeArgs == { None, Some(<<0, 4096>>) }

\* the pushes the settings orders are built from
OrderPushLists ==
    { <<>>,
      << Unknown(1) >>,
      << MaxFrameSize, Unknown(7), HeaderTableSize >>,
      << Unknown(15), InitialWindowSize, Unknown(7) >> }

BuiltOrders == { build(extend(NewBuilder, l)) : l \in OrderPushLists }

\* the from_id calls the experimental collections are built from
ExpPushLists ==
    { << <<Unknown(7), <<0, 42>>>> >>,
      << <<Unknown(7), <<0, 42>>>>, <<Unknown(15), <<0, 84>>>> >>,
      << <<Unknown(14), <<0, 84>>>>, <<Unknown(1), <<0, 42>>>> >> }

BuiltExperimentals ==
    { ExpBuild(ExpExtend(NewExpBuilder, Items(FromIdCalls(l)))) :
        l \in ExpPushLists }

NoFrame == head = [stream_id |-> 0, flag |-> 0] /\ payload = <<>>

\* the frames a Settings value is loaded from
LoadedFrames ==
    { [head |-> [stream_id |-> 0, flag |-> 1], payload |-> <<>>],
      [head |-> [stream_id |-> 0, flag |-> 5], payload |-> <<>>],
      [head |-> [stream_id |-> 0, flag |-> 0],
       payload |-> PayloadBytes(<< <<3, <<0, 100>>>>, <<7, <<0, 5>>>> >>)],
      [head |-> [stream_id |-> 0, flag |-> 0],
       payload |-> PayloadBytes(<< <<5, <<255, 65535>>>> >>)],
      [head |-> [stream_id |-> 0, flag |-> 0],
       payload |-> PayloadBytes(<< <<5, <<256, 0>>>> >>)] }

InitEncode ==
    /\ OrderIdle
    /\ ExpIdle
    /\ calls = 0
    /\ wire = NoWire
    /\ records = <<>>
    /\ tail = <<>>
    /\ result = [tag |-> "None"]
    /\ \/ /\ origin = "default"
          /\ settings = SettingsDefault
          /\ phase = "settings"
          /\ NoFrame
       \/ /\ origin = "ack"
          /\ settings = SettingsAck
          /\ phase = "settings"
          /\ NoFrame
       \/ /\ origin = "load"
          /\ \E f \in LoadedFrames :
                 /\ head = f.head
                 /\ payload = f.payload
                 \* a frame that load rejects gives no Settings value
                 /\ IF Load(f.head, f.payload).tag = "Ok"
                    THEN /\ settings = Load(f.head, f.payload).settings
                         /\ phase = "settings"
                    ELSE /\ settings = SettingsDefault
                         /\ phase = "rejected"

Setter(s) ==
    /\ phase = "settings"
    /\ calls < MaxSetterCalls
    /\ settings' = s
    /\ calls' = calls + 1
    /\ UNCHANGED <<ids, mask, order, pushed, phase, loadVars, expVars, origin,
                   wire>>

SetInitialWindowSize(size) == Setter(set_initial_window_size(settings, size))
SetMaxConcurrentStreams(max) == Setter(set_max_concurrent_streams(settings, max))
SetMaxHeaderListSize(size) == Setter(set_max_header_list_size(settings, size))
SetEnablePush(enable) == Setter(set_enable_push(settings, enable))
SetEnableConnectProtocol(val) ==
    Setter(set_enable_connect_protocol(settings, val))
SetHeaderTableSize(size) == Setter(set_header_table_size(settings, size))
SetNoRfc7540Priorities(enable) ==
    Setter(set_no_rfc7540_priorities(settings, enable))
SetExperimentalSettings(exp) == Setter(set_experimental_settings(settings, exp))
SetSettingsOrder(o) == Setter(set_settings_order(settings, o))

SetMaxFrameSize(size) ==
    /\ phase = "settings"
    /\ calls < MaxSetterCalls
    /\ IF FrameSizeAssertion(size)
       THEN /\ settings' = set_max_frame_size(settings, size)
            /\ phase' = phase
       ELSE /\ settings' = settings
            /\ phase' = "panicked"
    /\ calls' = calls + 1
    /\ UNCHANGED <<ids, mask, order, pushed, loadVars, expVars, origin, wire>>

Encode ==
    /\ phase = "settings"
    /\ wire' = encode(settings)
    /\ phase' = "encoded"
    /\ UNCHANGED <<orderVars, loadVars, expVars, settings, origin>>

\* the peer loads the frame that was written
LoadWire ==
    /\ phase = "encoded"
    /\ result' = Load(wire.head, wire.payload)
    /\ phase' = "decoded"
    /\ UNCHANGED <<orderVars, head, payload, records, tail, expVars, encVars>>

NextEncode ==
    \/ \E size \in WindowArgs : SetInitialWindowSize(size)
    \/ \E max \in StreamsArgs : SetMaxConcurrentStreams(max)
    \/ \E size \in FrameSizeArgs : SetMaxFrameSize(size)
    \/ \E size \in HeaderListArgs : SetMaxHeaderListSize(size)
    \/ \E enable \in BOOLEAN : SetEnablePush(enable)
    \/ \E val \in ConnectArgs : SetEnableConnectProtocol(val)
    \/ \E size \in TableSizeArgs : SetHeaderTableSize(size)
    \/ \E enable \in BOOLEAN : SetNoRfc7540Priorities(enable)
    \/ \E exp \in BuiltExperimentals : SetExperimentalSettings(exp)
    \/ \E o \in BuiltOrders : SetSettingsOrder(o)
    \/ Encode
    \/ LoadWire

SpecEncode == InitEncode /\ [][NextEncode]_vars

(***************************************************************************)
(* Vocabulary of the properties of the builder.                            *)
(***************************************************************************)
Count(seq, x) == Cardinality({ i \in 1..Len(seq) : seq[i] = x })

Occurs(seq, x) == \E i \in 1..Len(seq) : seq[i] = x

\* index of the first occurrence of x in seq
IndexOf(seq, x) ==
    CHOOSE i \in 1..Len(seq) :
        seq[i] = x /\ \A j \in 1..(i - 1) : seq[j] # x

AllUnknown(seq) == \A i \in 1..Len(seq) : IsUnknown(seq[i])

AllStd(seq) == \A i \in 1..Len(seq) : seq[i] \in StdIds

Builder == [ids |-> ids, mask |-> mask]

\* The elements of seq at the indices in idx, in increasing index order.
RECURSIVE Pick(_, _, _)
Pick(seq, idx, i) ==
    IF i > Len(seq) THEN <<>>
    ELSE (IF i \in idx THEN <<seq[i]>> ELSE <<>>) \o Pick(seq, idx, i + 1)

\* Indices of the first occurrence of each identifier of seq.
FirstIdx(seq) ==
    { i \in 1..Len(seq) : \A j \in 1..(i - 1) : seq[j] # seq[i] }

\* Indices of the pushes that carry a non-zero mask bit no earlier push carried.
AcceptedIdx(seq) ==
    { i \in 1..Len(seq) :
        /\ mask_id(seq[i]) # 0
        /\ \A j \in 1..(i - 1) : mask_id(seq[j]) # mask_id(seq[i]) }

FirstPushes(seq) == Pick(seq, FirstIdx(seq), 1)
AcceptedPushes(seq) == Pick(seq, AcceptedIdx(seq), 1)

\* The standard identifiers, in canonical order, that seq does not contain.
RemainingStd(seq) ==
    Pick(DEFAULT_IDS,
         { k \in 1..Len(DEFAULT_IDS) : ~Occurs(seq, DEFAULT_IDS[k]) }, 1)

\* The standard identifiers, in canonical order, whose mask bit no element
\* of seq carries.
UnmaskedStd(seq) ==
    Pick(DEFAULT_IDS,
         { k \in 1..Len(DEFAULT_IDS) :
             \A i \in 1..Len(seq) : mask_id(seq[i]) # mask_id(DEFAULT_IDS[k]) },
         1)

(***************************************************************************)
(* C1. Whatever standard identifiers were pushed or extended into a fresh  *)
(* builder, build() returns a sequence of length 8 in which each of the    *)
(* eight standard identifiers occurs exactly once.                         *)
(***************************************************************************)
C1_BuildComplete ==
    (phase = "built" /\ AllStd(pushed)) =>
        /\ Len(order) = 8
        /\ \A s \in StdIds : Count(order, s) = 1

\* built after more than eight standard identifiers, some of them repeated
C1_Witness ==
    /\ phase = "built"
    /\ AllStd(pushed)
    /\ Len(pushed) > 8
    /\ Len(order) = 8

(***************************************************************************)
(* C2, as stated: the built sequence is the pushed identifiers in order of *)
(* first push, followed by the standard identifiers that were not pushed,  *)
(* in canonical order; with no push it is the default order.               *)
(***************************************************************************)
C2_AsStated ==
    phase = "built" =>
        /\ order = FirstPushes(pushed) \o RemainingStd(pushed)
        /\ (pushed = <<>> => order = DEFAULT_IDS)

(***************************************************************************)
(* C2, amended: the built sequence is the pushed identifiers that carry a  *)
(* non-zero mask bit not carried by an earlier push, in push order,        *)
(* followed by the standard identifiers whose mask bit no push carried, in *)
(* canonical order.  When only standard identifiers were pushed this is    *)
(* the pushed identifiers in order of first push followed by the standard  *)
(* identifiers not pushed; with no push it is the default order.           *)
(***************************************************************************)
C2_BuildOrder ==
    phase = "built" =>
        /\ order = AcceptedPushes(pushed) \o UnmaskedStd(pushed)
        /\ (AllStd(pushed) =>
               order = FirstPushes(pushed) \o RemainingStd(pushed))
        /\ (pushed = <<>> => order = DEFAULT_IDS)

\* built after pushes that put a later canonical identifier first and
\* include an identifier that is dropped
C2_Witness ==
    /\ phase = "built"
    /\ Len(pushed) >= 2
    /\ Len(AcceptedPushes(pushed)) >= 2
    /\ Len(AcceptedPushes(pushed)) < Len(pushed)
    /\ order[1] # HeaderTableSize
    /\ order # DEFAULT_IDS

(***************************************************************************)
(* C3, as stated: pushing an identifier that was already pushed leaves the *)
(* builder unchanged, and after build() an identifier that was pushed more *)
(* than once occurs exactly once, at the position of its first push.       *)
(***************************************************************************)
C3_AsStated ==
    /\ phase = "building" =>
          \A id \in PushIds : Occurs(pushed, id) => push(Builder, id) = Builder
    /\ phase = "built" =>
          \A id \in PushIds : Count(pushed, id) >= 2 =>
              /\ Count(order, id) = 1
              /\ IndexOf(order, id) = IndexOf(FirstPushes(pushed), id)

(***************************************************************************)
(* C3, amended: pushing an identifier that was already pushed leaves the   *)
(* builder's sequence and mask unchanged, so after build() the identifier  *)
(* occurs at most once; it occurs exactly once, at the position of its     *)
(* first push among the accepted pushes, when its first push was accepted  *)
(* (non-zero mask bit not carried by an earlier push), which is the case   *)
(* of every standard identifier pushed among standard identifiers only.    *)
(***************************************************************************)
C3_PushIdempotent ==
    /\ phase = "building" =>
          \A id \in PushIds : Occurs(pushed, id) => push(Builder, id) = Builder
    /\ phase = "built" =>
          \A id \in PushIds : Occurs(pushed, id) =>
              /\ Count(order, id) <= 1
              /\ IndexOf(pushed, id) \in AcceptedIdx(pushed) =>
                    /\ Count(order, id) = 1
                    /\ IndexOf(order, id) = IndexOf(AcceptedPushes(pushed), id)
              /\ AllStd(pushed) =>
                    /\ Count(order, id) = 1
                    /\ IndexOf(order, id) = IndexOf(FirstPushes(pushed), id)

\* built after an identifier was pushed twice with another one in between
C3_Witness ==
    /\ phase = "built"
    /\ \E i, j, k \in 1..Len(pushed) :
          /\ i < j /\ j < k
          /\ pushed[i] = pushed[k]
          /\ pushed[j] # pushed[i]
          /\ pushed[i] \in StdIds
          /\ i \in AcceptedIdx(pushed)
          /\ j \in AcceptedIdx(pushed)
          /\ Count(order, pushed[i]) = 1

(***************************************************************************)
(* C4, as stated: a push of an Unknown identifier never changes the        *)
(* builder, and the built order holds standard identifiers only.           *)
(***************************************************************************)
C4_AsStated ==
    /\ AllUnknown(pushed) => (ids = <<>> /\ mask = 0)
    /\ phase = "built" => AllStd(order)

(***************************************************************************)
(* C4, amended: push(Unknown(code)) is a no-op exactly when code is 0,     *)
(* code exceeds 15, or the mask bit of code is already set in the builder; *)
(* otherwise Unknown(code) is appended.  After any sequence of pushes the  *)
(* built order holds only identifiers whose wire code is in 1..15, no two  *)
(* of them with the same wire code.                                        *)
(***************************************************************************)
C4_UnknownPush ==
    /\ phase = "building" =>
          \A id \in PushIds : IsUnknown(id) =>
              IF \/ id.raw = 0
                 \/ id.raw > 15
                 \/ \E i \in 1..Len(ids) : U16FromId(ids[i]) = id.raw
              THEN push(Builder, id) = Builder
              ELSE push(Builder, id).ids = Append(ids, id)
    /\ phase = "built" =>
          /\ \A i \in 1..Len(order) : U16FromId(order[i]) \in 1..15
          /\ \A i, j \in 1..Len(order) :
                U16FromId(order[i]) = U16FromId(order[j]) => i = j

\* built after pushes of Unknown identifiers, one dropped and one kept
C4_Witness ==
    /\ phase = "built"
    /\ \E i, j \in 1..Len(pushed) :
          /\ IsUnknown(pushed[i]) /\ ~Occurs(order, pushed[i])
          /\ IsUnknown(pushed[j]) /\ Occurs(order, pushed[j])

(***************************************************************************)
(* Vocabulary of the properties of Settings::load, on the records the      *)
(* payload was made of.                                                    *)
(***************************************************************************)
Loaded == phase = "loaded"

AckBit == head.flag % 2 = 1

\* a non-ACK frame on stream 0 whose payload is whole records
WholeRecords ==
    /\ Loaded
    /\ head.stream_id = 0
    /\ ~AckBit
    /\ Len(payload) % 6 = 0

BoolCodes == {2, 8, 9}
FreeCodes == {1, 3, 6}

\* v <= 2^31 - 1
InWindowRange(v) == v[1] < 32768

\* 16384 <= v <= 2^24 - 1
InFrameRange(v) == (v[1] = 0 /\ v[2] >= 16384) \/ (v[1] \in 1..255)

IsZeroOrOne(v) == v[1] = 0 /\ v[2] \in {0, 1}

\* the record carries a standard code and a value outside that code's domain
Violates(rec) ==
    \/ rec[1] \in BoolCodes /\ ~IsZeroOrOne(rec[2])
    \/ rec[1] = 4 /\ ~InWindowRange(rec[2])
    \/ rec[1] = 5 /\ ~InFrameRange(rec[2])

\* the field of a decoded Settings that belongs to a standard wire code
FieldOf(s, code) ==
    CASE code = 1 -> s.header_table_size
      [] code = 2 -> s.enable_push
      [] code = 3 -> s.max_concurrent_streams
      [] code = 4 -> s.initial_window_size
      [] code = 5 -> s.max_frame_size
      [] code = 6 -> s.max_header_list_size
      [] code = 8 -> s.enable_connect_protocol
      [] code = 9 -> s.no_rfc7540_priorities

StdCodes == {1, 2, 3, 4, 5, 6, 8, 9}

CodeCount(code) == Cardinality({ i \in 1..Len(records) : records[i][1] = code })

\* every record with one of the codes, once that code occurs once only,
\* has its value in the decoded field
StoredOnce(codes) ==
    \A i \in 1..Len(records) :
        (records[i][1] \in codes /\ CodeCount(records[i][1]) = 1) =>
            FieldOf(result.settings, records[i][1]) = Some(records[i][2])

(***************************************************************************)
(* C5. Settings::load returns InvalidStreamId for every head whose stream  *)
(* identifier is not zero, whatever the flag byte and the payload.         *)
(***************************************************************************)
C5_StreamIdFirst ==
    (Loaded /\ head.stream_id # 0) => result = Err("InvalidStreamId")

\* an ACK head with a non-empty, ill-formed payload on a non-zero stream
C5_Witness ==
    /\ Loaded
    /\ head.stream_id # 0
    /\ AckBit
    /\ Len(payload) % 6 # 0
    /\ Len(records) > 0 /\ Violates(records[1])
    /\ result = Err("InvalidStreamId")

(***************************************************************************)
(* C6. On stream 0 with the ACK bit set, Settings::load returns            *)
(* InvalidPayloadLength for a non-empty payload, and for an empty payload  *)
(* the canonical ACK value: is_ack() true, the eight standard fields       *)
(* absent, the default settings order.                                     *)
(***************************************************************************)
C6_AckLoad ==
    (Loaded /\ head.stream_id = 0 /\ AckBit) =>
        IF payload # <<>>
        THEN result = Err("InvalidPayloadLength")
        ELSE /\ result.tag = "Ok"
             /\ is_ack(result.settings.flags)
             /\ \A c \in StdCodes : FieldOf(result.settings, c) = None
             /\ result.settings.settings_order = DEFAULT_IDS

\* an ACK with other flag bits set and an empty payload was decoded
C6_Witness ==
    /\ Loaded
    /\ head.stream_id = 0
    /\ head.flag = 5
    /\ payload = <<>>
    /\ result.tag = "Ok"
    /\ is_ack(result.settings.flags)

(***************************************************************************)
(* C7. On stream 0 without the ACK bit, Settings::load returns             *)
(* InvalidPayloadAckSettings for every payload whose length is not a       *)
(* multiple of 6, also when a leading record carries an invalid value.     *)
(***************************************************************************)
C7_LengthCheck ==
    (Loaded /\ head.stream_id = 0 /\ ~AckBit /\ Len(payload) % 6 # 0) =>
        result = Err("InvalidPayloadAckSettings")

\* a payload of 7 bytes whose first record has an invalid value
C7_Witness ==
    /\ Loaded
    /\ head.stream_id = 0
    /\ ~AckBit
    /\ Len(payload) = 7
    /\ Violates(records[1])
    /\ result = Err("InvalidPayloadAckSettings")

(***************************************************************************)
(* C8. Range validation: when no other record is invalid, the decode fails *)
(* with InvalidSettingValue exactly when an InitialWindowSize record       *)
(* exceeds 2^31-1 or a MaxFrameSize record lies outside [16384, 2^24-1];   *)
(* otherwise it succeeds and the accepted value is stored.                 *)
(***************************************************************************)
C8_RangeValidation ==
    ( /\ WholeRecords
      /\ \A i \in 1..Len(records) :
             records[i][1] \notin {4, 5} => ~Violates(records[i]) ) =>
        IF \E i \in 1..Len(records) :
               records[i][1] \in {4, 5} /\ Violates(records[i])
        THEN result = Err("InvalidSettingValue")
        ELSE result.tag = "Ok" /\ StoredOnce({4, 5})

\* the largest window size and the smallest frame size were accepted
C8_Witness ==
    /\ WholeRecords
    /\ records = << <<4, <<32767, 65535>>>>, <<5, <<0, 16384>>>> >>
    /\ result.tag = "Ok"
    /\ result.settings.initial_window_size = Some(<<32767, 65535>>)
    /\ result.settings.max_frame_size = Some(<<0, 16384>>)

(***************************************************************************)
(* C9. Boolean-domain validation: when no range record is invalid, the     *)
(* decode fails with InvalidSettingValue exactly when an EnablePush,       *)
(* EnableConnectProtocol or NoRfc7540Priorities record has a value other   *)
(* than 0 or 1; otherwise it succeeds, the 0/1 values are stored, and      *)
(* HeaderTableSize, MaxConcurrentStreams and MaxHeaderListSize records are *)
(* stored whatever their value.                                            *)
(***************************************************************************)
C9_BoolValidation ==
    ( /\ WholeRecords
      /\ \A i \in 1..Len(records) :
             records[i][1] \in {4, 5} => ~Violates(records[i]) ) =>
        IF \E i \in 1..Len(records) :
               records[i][1] \in BoolCodes /\ ~IsZeroOrOne(records[i][2])
        THEN result = Err("InvalidSettingValue")
        ELSE result.tag = "Ok" /\ StoredOnce(BoolCodes \cup FreeCodes)

\* EnablePush = 1 and HeaderTableSize = 2^32-1 were accepted and stored
C9_Witness ==
    /\ WholeRecords
    /\ records = << <<1, <<65535, 65535>>>>, <<2, <<0, 1>>>> >>
    /\ result.tag = "Ok"
    /\ result.settings.enable_push = Some(<<0, 1>>)
    /\ result.settings.header_table_size = Some(<<65535, 65535>>)

(***************************************************************************)
(* C10. No partial application: for a non-ACK payload of whole records on  *)
(* stream 0, Settings::load returns InvalidSettingValue, and no Settings,  *)
(* exactly when some record with a standard identifier violates that       *)
(* identifier's domain, wherever it stands in the payload.                 *)
(***************************************************************************)
C10_NoPartialApplication ==
    WholeRecords =>
        IF \E i \in 1..Len(records) : Violates(records[i])
        THEN result = Err("InvalidSettingValue")
        ELSE result.tag = "Ok"

\* the decode failed on a last record that follows a valid one
C10_Witness ==
    /\ WholeRecords
    /\ Len(records) >= 2
    /\ \A i \in 1..(Len(records) - 1) :
           records[i][1] \in StdCodes /\ ~Violates(records[i])
    /\ Violates(records[Len(records)])
    /\ result = Err("InvalidSettingValue")

(***************************************************************************)
(* C11. Unknown-on-wire tolerance: records whose code is not one of the    *)
(* eight standard codes never cause a decode error and contribute nothing: *)
(* the decode of a payload of whole records equals the decode of the       *)
(* payload without those records, and a payload of such records only       *)
(* decodes to the default Settings.                                        *)
(***************************************************************************)
IsStdRecord(rec) == rec[1] \in StdCodes

C11_UnknownTolerated ==
    WholeRecords =>
        /\ result = Load(head, PayloadBytes(SelectSeq(records, IsStdRecord)))
        /\ (\A i \in 1..Len(records) : ~IsStdRecord(records[i])) =>
               result = Ok(SettingsDefault)
        /\ (\A i \in 1..Len(records) : ~Violates(records[i])) =>
               result.tag = "Ok"

\* a record with the reserved code 7 ahead of a valid record was decoded
C11_Witness ==
    /\ WholeRecords
    /\ records = << <<7, <<0, 5>>>>, <<3, <<0, 100>>>> >>
    /\ result.tag = "Ok"
    /\ result.settings =
           [SettingsDefault EXCEPT !.max_concurrent_streams = Some(<<0, 100>>)]

(***************************************************************************)
(* C16. Setting::from_id(id, value) returns a Setting exactly when id is a *)
(* standard identifier or Unknown(code) with 0 < code <= 15; the Setting   *)
(* carries the identifier and the value unchanged, and the value has no    *)
(* influence on whether one is returned.                                   *)
(***************************************************************************)
C16_FromIdGuard ==
    \A i \in 1..Len(expPushed) :
        LET c == expPushed[i]
        IN  IF c.id \in StdIds \/ (IsUnknown(c.id) /\ c.id.raw \in 1..15)
            THEN c.item = Some([id |-> c.id, value |-> c.value])
            ELSE c.item = None

\* Unknown(15) gave a Setting, Unknown(16) and Unknown(0) gave none
C16_Witness ==
    /\ \E i \in 1..Len(expPushed) :
           expPushed[i].id = Unknown(15) /\ expPushed[i].item # None
    /\ \E i \in 1..Len(expPushed) :
           expPushed[i].id = Unknown(16) /\ expPushed[i].item = None
    /\ \E i \in 1..Len(expPushed) :
           expPushed[i].id = Unknown(0) /\ expPushed[i].item = None

(***************************************************************************)
(* C17. After any sequence of push/extend calls on the experimental        *)
(* builder, the built collection holds only settings with an Unknown       *)
(* identifier whose code is in 1..15 and is not a standard code, no two    *)
(* with the same code, and for each code the first setting pushed with it, *)
(* in the order of these first pushes; None items and settings with a      *)
(* standard identifier are never stored.                                   *)
(***************************************************************************)
\* the pushed items that are a Setting with an extension code
ExtensionItemIdx ==
    { i \in 1..Len(expPushed) :
        /\ expPushed[i].item # None
        /\ IsUnknown(expPushed[i].item[1].id)
        /\ expPushed[i].item[1].id.raw \in (1..15) \ StdCodes }

\* ... and that are the first pushed with their code
FirstExtensionItemIdx ==
    { i \in ExtensionItemIdx :
        \A j \in ExtensionItemIdx :
            j < i => expPushed[j].item[1].id # expPushed[i].item[1].id }

C17_ExperimentalBuilder ==
    phase = "exp_built" =>
        /\ \A k \in 1..Len(experimental) :
               /\ IsUnknown(experimental[k].id)
               /\ experimental[k].id.raw \in (1..15) \ StdCodes
        /\ \A k, l \in 1..Len(experimental) :
               experimental[k].id = experimental[l].id => k = l
        /\ Len(experimental) = Cardinality(FirstExtensionItemIdx)
        /\ \A i \in FirstExtensionItemIdx :
               experimental[Cardinality({ j \in FirstExtensionItemIdx : j <= i })]
                   = expPushed[i].item[1]

\* built from pushes that hold a None, a setting with a standard identifier
\* and two settings with the same extension code and different values
C17_Witness ==
    /\ phase = "exp_built"
    /\ Len(experimental) >= 1
    /\ \E i \in 1..Len(expPushed) : expPushed[i].item = None
    /\ \E i \in 1..Len(expPushed) :
           expPushed[i].item # None /\ expPushed[i].item[1].id \in StdIds
    /\ \E i, j \in ExtensionItemIdx :
           /\ i < j
           /\ expPushed[i].item[1].id = expPushed[j].item[1].id
           /\ expPushed[i].item[1].value # expPushed[j].item[1].value
           /\ \E k \in 1..Len(experimental) :
                  experimental[k] = expPushed[i].item[1]

(***************************************************************************)
(* Vocabulary of the properties of the setters and of encode.              *)
(***************************************************************************)
Encoded == phase \in {"encoded", "decoded"}

\* the <<code, value>> records in the bytes written after the frame head
RECURSIVE RecordsOfBytes(_)
RecordsOfBytes(bytes) ==
    IF Len(bytes) < 6 THEN <<>>
    ELSE << << bytes[1] * 256 + bytes[2],
               << bytes[3] * 256 + bytes[4], bytes[5] * 256 + bytes[6] >> >> >>
         \o RecordsOfBytes(SubSeq(bytes, 7, Len(bytes)))

Written == RecordsOfBytes(wire.payload)

IsExtensionRecord(rec) == ~IsStdRecord(rec)

WrittenStd == SelectSeq(Written, IsStdRecord)
WrittenExtension == SelectSeq(Written, IsExtensionRecord)

WrittenCount(code) ==
    Cardinality({ i \in 1..Len(Written) : Written[i][1] = code })

PresentCodes == { c \in StdCodes : FieldOf(settings, c) # None }

\* the value can be decoded: the setters let these two fields leave their
\* wire domain
Decodable ==
    /\ settings.initial_window_size # None =>
           InWindowRange(settings.initial_window_size[1])
    /\ settings.enable_connect_protocol # None =>
           IsZeroOrOne(settings.enable_connect_protocol[1])

SameStdFields(s, t) == \A c \in StdCodes : FieldOf(s, c) = FieldOf(t, c)

(***************************************************************************)
(* C12, as stated: for a Settings built from default() by standard setters *)
(* with the default order, the decode of what encode wrote succeeds and    *)
(* has the same eight standard field values.                               *)
(***************************************************************************)
C12_AsStated ==
    ( /\ phase = "decoded"
      /\ origin = "default"
      /\ settings.settings_order = DEFAULT_IDS
      /\ settings.experimental_settings = None ) =>
        /\ result.tag = "Ok"
        /\ SameStdFields(result.settings, settings)

(***************************************************************************)
(* C12, amended: for a Settings built from default() by the setters, with  *)
(* the default order, whose initial_window_size, when present, is at most  *)
(* 2^31-1 and whose enable_connect_protocol, when present, is 0 or 1, the  *)
(* decode of what encode wrote succeeds and has the same eight standard    *)
(* field values; when one of the two fields is outside that domain the     *)
(* decode fails with InvalidSettingValue.                                  *)
(***************************************************************************)
C12_RoundTrip ==
    ( /\ phase = "decoded"
      /\ origin = "default"
      /\ settings.settings_order = DEFAULT_IDS ) =>
        IF Decodable
        THEN /\ result.tag = "Ok"
             /\ SameStdFields(result.settings, settings)
        ELSE result = Err("InvalidSettingValue")

\* three fields, one of them 2^32-1, came back from the decode
C12_Witness ==
    /\ phase = "decoded"
    /\ origin = "default"
    /\ settings.settings_order = DEFAULT_IDS
    /\ settings.experimental_settings = None
    /\ settings.max_header_list_size = Some(<<65535, 65535>>)
    /\ settings.enable_push = Some(<<0, 1>>)
    /\ settings.max_frame_size = Some(<<0, 16384>>)
    /\ result.tag = "Ok"
    /\ result.settings.max_header_list_size = Some(<<65535, 65535>>)

(***************************************************************************)
(* C13. ACK round trip: the Settings decoded from a frame with the ACK     *)
(* flag and an empty payload has is_ack() true and every standard field    *)
(* absent, and encode writes for it a head with the ACK flag, stream 0 and *)
(* payload length 0, followed by no record.                                *)
(***************************************************************************)
C13_AckRoundTrip ==
    ( /\ origin = "load"
      /\ calls = 0
      /\ head.flag % 2 = 1
      /\ payload = <<>> ) =>
        /\ is_ack(settings.flags)
        /\ PresentCodes = {}
        /\ Encoded =>
              /\ wire.head.flag % 2 = 1
              /\ wire.head.stream_id = 0
              /\ wire.head.len = 0
              /\ wire.payload = <<>>

\* the ACK decoded from a frame with flag byte 5 was encoded
C13_Witness ==
    /\ origin = "load"
    /\ calls = 0
    /\ head.flag = 5
    /\ payload = <<>>
    /\ phase = "encoded"
    /\ wire.head = [stream_id |-> 0, flag |-> 1, len |-> 0]

(***************************************************************************)
(* C14. ACK invariant: in every Settings value reached from default(),     *)
(* ack() or load by the public setters, is_ack() implies that the eight    *)
(* standard fields are absent and no experimental settings are attached.   *)
(***************************************************************************)
C14_AckInvariant ==
    is_ack(settings.flags) =>
        /\ PresentCodes = {}
        /\ settings.experimental_settings = None

(***************************************************************************)
(* C15. A Settings value whose ACK flag is set encodes to zero setting     *)
(* records and payload length 0, whatever its order and whatever setters   *)
(* were called on it.                                                      *)
(***************************************************************************)
C15_AckEncodesEmpty ==
    (Encoded /\ is_ack(settings.flags)) =>
        /\ wire.head.len = 0
        /\ wire.payload = <<>>

(***************************************************************************)
(* C18. Emission order: the records of standard identifiers that encode    *)
(* writes are, in the sequence of settings_order, one record for each      *)
(* standard identifier whose field is present and none for an absent       *)
(* field, so that the set of records does not depend on the order.         *)
(***************************************************************************)
\* the present standard fields as records, in the sequence of o
RECURSIVE PresentInOrder(_)
PresentInOrder(o) ==
    IF o = <<>> THEN <<>>
    ELSE (IF ~IsUnknown(Head(o)) /\ FieldOf(settings, U16FromId(Head(o))) # None
          THEN << <<U16FromId(Head(o)),
                    FieldOf(settings, U16FromId(Head(o)))[1]>> >>
          ELSE <<>>)
         \o PresentInOrder(Tail(o))

C18_EmissionOrder ==
    Encoded =>
        /\ WrittenStd = PresentInOrder(settings.settings_order)
        /\ { WrittenStd[i] : i \in 1..Len(WrittenStd) } =
               { <<c, FieldOf(settings, c)[1]>> : c \in PresentCodes }

(***************************************************************************)
(* C19. Emission completeness: whatever pushes the settings order was      *)
(* built from, encode writes exactly one record for every standard field   *)
(* that is present.                                                        *)
(***************************************************************************)
C19_EmissionComplete ==
    Encoded => \A c \in PresentCodes : WrittenCount(c) = 1

(***************************************************************************)
(* C20, as stated: with experimental settings attached to a Settings that  *)
(* is no ACK and an identifier outside the standard set in the settings    *)
(* order, encode writes every                                              *)
(* attached experimental setting exactly once, in the order of the         *)
(* experimental collection.                                                *)
(***************************************************************************)
RECURSIVE AsRecords(_)
AsRecords(sts) ==
    IF sts = <<>> THEN <<>>
    ELSE << <<U16FromId(Head(sts).id), Head(sts).value>> >> \o AsRecords(Tail(sts))

C20_AsStated ==
    ( /\ Encoded
      /\ ~is_ack(settings.flags)
      /\ settings.experimental_settings # None
      /\ \E i \in 1..Len(settings.settings_order) :
             U16FromId(settings.settings_order[i]) \notin StdCodes ) =>
        WrittenExtension = AsRecords(settings.experimental_settings[1])

(***************************************************************************)
(* C20, amended: with experimental settings attached, encode writes an     *)
(* attached experimental setting exactly when its Unknown identifier       *)
(* occurs in the settings order, once, at the position of that identifier  *)
(* in the order: the experimental records are written in the sequence of   *)
(* the settings order, and an attached setting whose identifier is not in  *)
(* the order is not written.                                               *)
(***************************************************************************)
\* the attached settings whose identifier is in o, in the sequence of o
RECURSIVE AttachedInOrder(_, _)
AttachedInOrder(o, exp) ==
    IF o = <<>> THEN <<>>
    ELSE LET here == { k \in 1..Len(exp) : exp[k].id = Head(o) }
         IN  (IF IsUnknown(Head(o)) /\ here # {}
              THEN << exp[CHOOSE k \in here : \A l \in here : k <= l] >>
              ELSE <<>>)
             \o AttachedInOrder(Tail(o), exp)

C20_ExperimentalEmission ==
    (Encoded /\ settings.experimental_settings # None) =>
        LET exp == settings.experimental_settings[1]
        IN  /\ WrittenExtension =
                   AsRecords(AttachedInOrder(settings.settings_order, exp))
            /\ \A k \in 1..Len(exp) :
                   WrittenCount(exp[k].id.raw) =
                       IF Occurs(settings.settings_order, exp[k].id)
                       THEN 1 ELSE 0

\* two attached settings were written in the sequence of the order, which
\* is not the sequence of the collection
C20_Witness ==
    /\ Encoded
    /\ settings.experimental_settings =
           Some(<< [id |-> Unknown(7), value |-> <<0, 42>>],
                   [id |-> Unknown(15), value |-> <<0, 84>>] >>)
    /\ settings.settings_order[1] = Unknown(15)
    /\ WrittenExtension = << <<15, <<0, 84>>>>, <<7, <<0, 42>>>> >>
    /\ PresentCodes # {}

(***************************************************************************)
(* C21. Payload length: the length encode writes in the frame head is 6    *)
(* times the number of records it then writes, and that number is the      *)
(* count of present standard fields plus the count of attached             *)
(* experimental settings whose identifier occurs in the settings order.    *)
(***************************************************************************)
ReachableExperimental ==
    IF settings.experimental_settings = None THEN {}
    ELSE { k \in 1..Len(settings.experimental_settings[1]) :
             Occurs(settings.settings_order,
                    settings.experimental_settings[1][k].id) }

C21_PayloadLength ==
    Encoded =>
        /\ wire.head.len = 6 * Len(Written)
        /\ Len(wire.payload) = wire.head.len
        /\ Len(Written) =
               Cardinality(PresentCodes) + Cardinality(ReachableExperimental)

(***************************************************************************)
(* C22. In every reachable Settings value the max_frame_size field, when   *)
(* present, lies in [16384, 2^24-1]: set_max_frame_size(Some(v)) with v    *)
(* outside the range fails its assertion and stores nothing,               *)
(* set_max_frame_size(None) and in-range values are stored, and load       *)
(* stores only in-range values.                                            *)
(***************************************************************************)
FrameSizeInRange(s) ==
    s.max_frame_size # None => InFrameRange(s.max_frame_size[1])

\* the frame the Settings value was loaded from holds an out-of-range
\* MaxFrameSize record
LoadedOutOfRange ==
    /\ origin = "load"
    /\ \E i \in 1..Len(RecordsOfBytes(payload)) :
           /\ RecordsOfBytes(payload)[i][1] = 5
           /\ ~InFrameRange(RecordsOfBytes(payload)[i][2])

SetMaxFrameSizeContract ==
    \A size \in FrameSizeArgs :
        SetMaxFrameSize(size) =>
            IF size = None \/ InFrameRange(size[1])
            THEN settings'.max_frame_size = size /\ phase' = phase
            ELSE settings' = settings /\ phase' = "panicked"

C22_MaxFrameSizeRange ==
    /\ [](/\ FrameSizeInRange(settings)
          /\ result.tag = "Ok" => FrameSizeInRange(result.settings)
          /\ LoadedOutOfRange => phase = "rejected")
    /\ [][SetMaxFrameSizeContract]_vars

\* an in-range value was stored, then an out-of-range call failed its
\* assertion and left the stored value
C22_Witness ==
    /\ phase = "panicked"
    /\ settings.max_frame_size = Some(<<255, 65535>>)
    /\ origin = "default"

(***************************************************************************)
(* C23. Last duplicate wins: when a non-ACK payload of whole records on    *)
(* stream 0 holds no record that violates its identifier's domain,         *)
(* Settings::load succeeds, every standard field holds the value of the    *)
(* last record with its identifier, and a field is absent exactly when no  *)
(* record carries its identifier.                                          *)
(***************************************************************************)
RecordsWith(code) == { i \in 1..Len(records) : records[i][1] = code }

LastWith(code) ==
    CHOOSE i \in RecordsWith(code) : \A j \in RecordsWith(code) : j <= i

C23_LastRecordWins ==
    (WholeRecords /\ \A i \in 1..Len(records) : ~Violates(records[i])) =>
        /\ result.tag = "Ok"
        /\ \A c \in StdCodes :
               /\ FieldOf(result.settings, c) = None <=> RecordsWith(c) = {}
               /\ RecordsWith(c) # {} =>
                      FieldOf(result.settings, c) =
                          Some(records[LastWith(c)][2])

\* two records of one standard identifier with different values were
\* decoded
C23_Witness ==
    /\ WholeRecords
    /\ Len(records) = 2
    /\ records[1][1] = records[2][1]
    /\ records[1][1] \in StdCodes
    /\ records[1][2] # records[2][2]
    /\ result.tag = "Ok"
    /\ FieldOf(result.settings, records[1][1]) = Some(records[2][2])

====
